---- MODULE Spec2Model ----
(***************************************************************************)
(* pygdbmi: GdbController (gdbcontroller.py) as a state machine.           *)
(*                                                                         *)
(* Bytes and text are sequences of one-character strings.  "xFF" stands    *)
(* for the single byte 0xFF, which is not valid UTF-8.  An optional value  *)
(* (Python None or a value) is a sequence of length 0 (None) or 1.         *)
(* The model is of the POSIX, Python 3 build (USING_WINDOWS = False,       *)
(* PYTHON3 = True).                                                        *)
(***************************************************************************)
EXTENDS Integers, Sequences, FiniteSets, TLC

VARIABLES
    gdb_process,        \* the controller's handle: "attached" or "None"
    child_alive,        \* the gdb child has not terminated (poll() is None)
    mutex,              \* holder of self.mutex, or NoThread when free
    incomplete_output,  \* self._incomplete_output: stream -> optional bytes
    to_emit,            \* stream -> bytes gdb has still to write
    emits,              \* stream -> number of writes gdb has made
    pending,            \* stream -> bytes in the pipe, not yet read
    stdin,              \* commands written to the child's stdin and flushed
    now,                \* time.time(), in whole ticks
    pc,                 \* thread -> position in write / get_gdb_response
    frame,              \* thread -> arguments and locals of the call in progress
    outcome,            \* thread -> how the last call ended, "none" during a call
    retval,             \* thread -> list the last call returned
    calls,              \* thread -> number of calls of write / get_gdb_response
    feed_input,         \* bytes fed, chunk by chunk, to _get_responses_list
    feed_stream,        \* the stream they are fed to
    feed_pos,           \* number of bytes fed so far
    feed_records,       \* Records returned by the calls so far
    feed_err,           \* some call raised
    feed_last,          \* chunk, carry before and result of the last call
    probe               \* arguments and result of _buffer_incomplete_responses

varsChild == <<child_alive, to_emit, emits, pending>>
varsThread == <<pc, frame, outcome, retval, calls>>
varsCtl == <<gdb_process, mutex, stdin, now, varsChild, varsThread>>
varsFeed == <<feed_input, feed_stream, feed_pos, feed_records, feed_err, feed_last>>
vars == <<varsCtl, incomplete_output, varsFeed, probe>>

-----------------------------------------------------------------------------
(* Optional values and byte strings *)

None == <<>>
Some(v) == <<v>>
\* the value of an optional byte string, None read as empty
BytesOf(o) == IF o = None THEN <<>> ELSE o[1]
\* Python truth value of an optional byte string
Truthy(o) == o # None /\ o[1] # <<>>

NL == "\n"
xFF == "xFF"

Contains(s, c) == \E i \in 1..Len(s) : s[i] = c
\* Python offsets count from 0
index(s, c) == (CHOOSE i \in 1..Len(s) : s[i] = c /\ \A j \in 1..(i-1) : s[j] # c) - 1
rindex(s, c) == (CHOOSE i \in 1..Len(s) : s[i] = c /\ \A j \in (i+1)..Len(s) : s[j] # c) - 1
\* s[off:] and s[:off]
SliceFrom(s, off) == IF off >= Len(s) THEN <<>> ELSE SubSeq(s, off + 1, Len(s))
SliceTo(s, off) == IF off >= Len(s) THEN s ELSE SubSeq(s, 1, off)
endswith(s, c) == Len(s) > 0 /\ s[Len(s)] = c

-----------------------------------------------------------------------------
(* _buffer_incomplete_responses(raw_output, buf) -> (raw_output, buf) *)

\* the same with the join of the old buffer left out
BufferDropsCarry(raw_output, buf) ==
    IF ~Truthy(raw_output) THEN [raw_output |-> raw_output, buf |-> buf]
    ELSE LET joined == BytesOf(raw_output)
         IN  IF ~Contains(joined, NL)
                THEN [raw_output |-> None, buf |-> Some(joined)]
             ELSE IF ~endswith(joined, NL)
                THEN LET remainder_offset == rindex(joined, NL) + 1
                     IN  [raw_output |-> Some(SliceTo(joined, remainder_offset)),
                          buf |-> Some(SliceFrom(joined, remainder_offset))]
             ELSE [raw_output |-> Some(joined), buf |-> None]

\* the same with the old buffer kept after it was joined
BufferKeepsCarry(raw_output, buf) ==
    IF ~Truthy(raw_output) THEN [raw_output |-> raw_output, buf |-> buf]
    ELSE LET joined == IF Truthy(buf) THEN BytesOf(buf) \o BytesOf(raw_output)
                       ELSE BytesOf(raw_output)
         IN  IF ~Contains(joined, NL)
                THEN [raw_output |-> None, buf |-> Some(joined)]
             ELSE IF ~endswith(joined, NL)
                THEN LET remainder_offset == rindex(joined, NL) + 1
                     IN  [raw_output |-> Some(SliceTo(joined, remainder_offset)),
                          buf |-> Some(SliceFrom(joined, remainder_offset))]
             ELSE [raw_output |-> Some(joined), buf |-> buf]

\* the same handing a partial line on instead of buffering it
BufferFlushesPartial(raw_output, buf) ==
    IF ~Truthy(raw_output) THEN [raw_output |-> raw_output, buf |-> buf]
    ELSE LET joined == IF Truthy(buf) THEN BytesOf(buf) \o BytesOf(raw_output)
                       ELSE BytesOf(raw_output)
         IN  [raw_output |-> Some(joined), buf |-> None]

_buffer_incomplete_responses(raw_output, buf) ==
    IF ~Truthy(raw_output) THEN [raw_output |-> raw_output, buf |-> buf]
    ELSE LET joined == IF Truthy(buf) THEN BytesOf(buf) \o BytesOf(raw_output)
                       ELSE BytesOf(raw_output)
             buf1 == IF Truthy(buf) THEN None ELSE buf
         IN  IF ~Contains(joined, NL)
                THEN [raw_output |-> None, buf |-> Some(joined)]
             ELSE IF ~endswith(joined, NL)
                THEN LET remainder_offset == rindex(joined, NL) + 1
                     IN  [raw_output |-> Some(SliceTo(joined, remainder_offset)),
                          buf |-> Some(SliceFrom(joined, remainder_offset))]
             ELSE [raw_output |-> Some(joined), buf |-> buf1]

-----------------------------------------------------------------------------
(* gdbmiparser: response_is_finished and parse_response.  The module is    *)
(* not among the sources; both are modelled from the decoder's written     *)
(* grammar.  A payload that is a mapping is kept as its checked text.      *)

GDB_PROMPT == <<"(", "g", "d", "b", ")">>
Whitespace == {" ", "\t", "\r"}

response_is_finished(response) ==
    /\ Len(response) >= Len(GDB_PROMPT)
    /\ SubSeq(response, 1, Len(GDB_PROMPT)) = GDB_PROMPT
    /\ \A i \in (Len(GDB_PROMPT) + 1)..Len(response) : response[i] \in Whitespace

Digits == {"0", "1", "2", "3", "4", "5", "6", "7", "8", "9"}
DigitVal(c) == CASE c = "0" -> 0 [] c = "1" -> 1 [] c = "2" -> 2 [] c = "3" -> 3
                 [] c = "4" -> 4 [] c = "5" -> 5 [] c = "6" -> 6 [] c = "7" -> 7
                 [] c = "8" -> 8 [] c = "9" -> 9

\* number of leading decimal digits
TokenLen(line) ==
    CHOOSE n \in 0..Len(line) :
        /\ \A i \in 1..n : line[i] \in Digits
        /\ n = Len(line) \/ line[n + 1] \notin Digits

RECURSIVE IntOf(_)
IntOf(digits) ==
    IF digits = <<>> THEN 0
    ELSE 10 * IntOf(SubSeq(digits, 1, Len(digits) - 1)) + DigitVal(digits[Len(digits)])

MarkerType(c) ==
    CASE c = "^" -> "result"
      [] c = "~" -> "console"
      [] c = "@" -> "target"
      [] c = "&" -> "log"
      [] c \in {"=", "*", "+"} -> "notify"
      [] OTHER -> "output"

\* a backslash and the next character are one escape sequence
Unescaped(c) ==
    CASE c = "n" -> <<NL>>
      [] c = "t" -> <<"\t">>
      [] c = "r" -> <<"\r">>
      [] c = "b" -> <<"BS">>
      [] c = "f" -> <<"FF">>
      [] c = "\"" -> <<"\"">>
      [] c = "\\" -> <<"\\">>
      [] OTHER -> <<"\\", c>>

RECURSIVE unescape(_)
unescape(s) ==
    IF s = <<>> THEN <<>>
    ELSE IF s[1] = "\\" /\ Len(s) >= 2
        THEN Unescaped(s[2]) \o unescape(SliceFrom(s, 2))
    ELSE <<s[1]>> \o unescape(SliceFrom(s, 1))

\* the inside of a quoted string: no bare quote, no backslash left alone
RECURSIVE InsideQuotes(_)
InsideQuotes(s) ==
    IF s = <<>> THEN TRUE
    ELSE IF s[1] = "\\" THEN Len(s) >= 2 /\ InsideQuotes(SliceFrom(s, 2))
    ELSE s[1] # "\"" /\ InsideQuotes(SliceFrom(s, 1))

IsQuoted(s) ==
    /\ Len(s) >= 2
    /\ s[1] = "\"" /\ s[Len(s)] = "\""
    /\ InsideQuotes(SubSeq(s, 2, Len(s) - 1))

\* braces, brackets and quotes of a value text are balanced and nested
RECURSIVE Balanced(_, _, _)
Balanced(s, open, quoted) ==
    IF s = <<>> THEN open = <<>> /\ ~quoted
    ELSE IF quoted
        THEN IF s[1] = "\\" THEN Len(s) >= 2 /\ Balanced(SliceFrom(s, 2), open, TRUE)
             ELSE Balanced(SliceFrom(s, 1), open, s[1] # "\"")
    ELSE IF s[1] = "\"" THEN Balanced(SliceFrom(s, 1), open, TRUE)
    ELSE IF s[1] \in {"{", "["} THEN Balanced(SliceFrom(s, 1), <<s[1]>> \o open, FALSE)
    ELSE IF s[1] = "}"
        THEN open # <<>> /\ open[1] = "{" /\ Balanced(SliceFrom(s, 1), Tail(open), FALSE)
    ELSE IF s[1] = "]"
        THEN open # <<>> /\ open[1] = "[" /\ Balanced(SliceFrom(s, 1), Tail(open), FALSE)
    ELSE Balanced(SliceFrom(s, 1), open, FALSE)

\* key=value pairs: some text, with an "=", balanced
IsMapping(s) == s # <<>> /\ Contains(s, "=") /\ s[1] # "=" /\ Balanced(s, <<>>, FALSE)

\* [err, record]: err is set when the line cannot be decoded
parse_response(line) ==
    LET n == TokenLen(line)
        rest == SliceFrom(line, n)
        type == IF rest = <<>> THEN "output" ELSE MarkerType(rest[1])
        body == IF rest = <<>> THEN <<>> ELSE SliceFrom(rest, 1)
        token == IF n = 0 THEN None ELSE Some(IntOf(SliceTo(line, n)))
    IN  IF type = "output"
           THEN [err |-> FALSE,
                 record |-> [type |-> "output", message |-> None,
                             payload |-> Some(line), token |-> None]]
        ELSE IF type \in {"console", "target", "log"}
           THEN [err |-> ~IsQuoted(body),
                 record |-> [type |-> type, message |-> None,
                             payload |-> IF IsQuoted(body)
                                         THEN Some(unescape(SubSeq(body, 2, Len(body) - 1)))
                                         ELSE None,
                             token |-> None]]
        ELSE IF Contains(body, ",")
           THEN LET c == index(body, ",")
                IN  [err |-> ~IsMapping(SliceFrom(body, c + 1)),
                     record |-> [type |-> type, message |-> Some(SliceTo(body, c)),
                                 payload |-> Some(SliceFrom(body, c + 1)),
                                 token |-> token]]
        ELSE [err |-> FALSE,
              record |-> [type |-> type, message |-> Some(body),
                          payload |-> None, token |-> token]]

-----------------------------------------------------------------------------
(* GdbController._get_responses_list(raw_output, stream, verbose) *)

\* bytes.decode(): UTF-8; the bytes of the model other than 0xFF are ASCII
decode(bytes) == [err |-> Contains(bytes, xFF), str |-> bytes]

RECURSIVE split(_, _)
split(s, sep) ==
    IF ~Contains(s, sep) THEN <<s>>
    ELSE <<SliceTo(s, index(s, sep))>> \o split(SliceFrom(s, index(s, sep) + 1), sep)

filter_nonempty(list) == SelectSeq(list, LAMBDA x : x # <<>>)

WithStream(record, stream) ==
    [type |-> record.type, message |-> record.message, payload |-> record.payload,
     token |-> record.token, stream |-> stream]

\* the loop without the test for the prompt
ParseLinesKeepsPrompt(response_list, stream) ==
    [i \in 1..Len(response_list) |->
        WithStream(parse_response(response_list[i]).record, stream)]

\* the loop over response_list: the Records of the lines that are not the prompt
RECURSIVE ParseLines(_, _)
ParseLines(response_list, stream) ==
    IF response_list = <<>> THEN <<>>
    ELSE IF response_is_finished(Head(response_list))
        THEN ParseLines(Tail(response_list), stream)
    ELSE <<WithStream(parse_response(Head(response_list)).record, stream)>>
             \o ParseLines(Tail(response_list), stream)

ParseFails(response_list) ==
    \E i \in 1..Len(response_list) :
        /\ ~response_is_finished(response_list[i])
        /\ parse_response(response_list[i]).err

\* [raised, responses, buf]: buf is the new self._incomplete_output[stream],
\* assigned before anything is decoded; raised names the error, "" for none
_get_responses_list(raw_output, stream, buf) ==
    LET b == _buffer_incomplete_responses(raw_output, buf)
    IN  IF ~Truthy(b.raw_output)
           THEN [raised |-> "", responses |-> <<>>, buf |-> b.buf]
        ELSE LET d == decode(BytesOf(b.raw_output))
                 response_list == filter_nonempty(split(d.str, NL))
             IN  IF d.err
                    THEN [raised |-> "UnicodeDecodeError", responses |-> <<>>, buf |-> b.buf]
                 ELSE IF ParseFails(response_list)
                    THEN [raised |-> "ProtocolDecodeError", responses |-> <<>>, buf |-> b.buf]
                 ELSE [raised |-> "", responses |-> ParseLines(response_list, stream),
                       buf |-> b.buf]

-----------------------------------------------------------------------------
(* Streams, threads and the initial state of the controller *)

Streams == {"stdout", "stderr"}
Threads == {"t1", "t2"}
NoThread == "nobody"

\* the arguments and the locals of a call; NoFrame when no call is in progress
NoFrame == [op |-> "none", timeout_sec |-> 0, raise_error_on_timeout |-> FALSE,
            read_response |-> FALSE, blocking_call |-> FALSE,
            wait_for_result |-> FALSE, mi_cmd_to_write_nl |-> <<>>,
            outputready |-> <<>>, events |-> <<>>, idx |-> 1, responses |-> <<>>,
            timeout_time_sec |-> 0, t0 |-> 0]

\* GdbController.__init__, and threads that have called nothing yet
InitCtl ==
    /\ gdb_process = "attached"
    /\ child_alive = TRUE
    /\ mutex = NoThread
    /\ pending = [s \in Streams |-> <<>>]
    /\ emits = [s \in Streams |-> 0]
    /\ stdin = <<>>
    /\ now = 0
    /\ pc = [t \in Threads |-> "idle"]
    /\ frame = [t \in Threads |-> NoFrame]
    /\ outcome = [t \in Threads |-> "none"]
    /\ retval = [t \in Threads |-> <<>>]
    /\ calls = [t \in Threads |-> 0]

InitBuffers == incomplete_output = [s \in Streams |-> None]

\* a child that writes nothing
InitSilent == to_emit = [s \in Streams |-> <<>>]

NoLast == [chunk |-> None, before |-> None, raised |-> "", responses |-> <<>>,
           after |-> None]
InitFeedIdle ==
    /\ feed_input = <<>>
    /\ feed_stream = "stdout"
    /\ feed_pos = 0
    /\ feed_records = <<>>
    /\ feed_err = FALSE
    /\ feed_last = NoLast

NoProbe == [raw_output |-> None, buf |-> None, out |-> [raw_output |-> None, buf |-> None]]
InitProbeIdle == probe = NoProbe

-----------------------------------------------------------------------------
(* SpecFeed: one stream's bytes fed to _get_responses_list in chunks, as   *)
(* test_controller_buffer and test_controller_buffer_randomized do.        *)

MaxFeedLines == 2

FeedLines ==
    { <<"a">>,                                   \* program output
      <<"(", "g", "d", "b", ")", " ">>,          \* the prompt
      <<"~", "\"", "\\", "n", "\"">>,            \* ~"\n"
      <<"7", "^", "d", ",", "a", "=", "{", "}">>,\* 7^d,a={}
      <<"~", "\"">>,                             \* ~"   (malformed)
      <<xFF>>,                                   \* not UTF-8
      <<>> }                                     \* blank line

RECURSIVE FeedTexts(_)
FeedTexts(n) ==
    IF n = 0 THEN {<<>>}
    ELSE {l \o <<NL>> \o rest : l \in FeedLines, rest \in FeedTexts(n - 1)}

\* up to MaxFeedLines lines; the last one may still lack its terminator
FeedInputs ==
    UNION { {text, SliceTo(text, Len(text) - 1)} : text \in UNION {FeedTexts(n) : n \in 0..MaxFeedLines} }

InitFeed ==
    /\ feed_input \in FeedInputs
    /\ feed_stream \in Streams
    /\ feed_pos = 0
    /\ feed_records = <<>>
    /\ feed_err = FALSE
    /\ feed_last = NoLast

\* one call of _get_responses_list(chunk, feed_stream, False)
FeedCall(chunk) ==
    LET before == incomplete_output[feed_stream]
        r == _get_responses_list(chunk, feed_stream, before)
    IN  /\ incomplete_output' = [incomplete_output EXCEPT ![feed_stream] = r.buf]
        /\ feed_records' = feed_records \o r.responses
        /\ feed_err' = (feed_err \/ r.raised # "")
        /\ feed_last' = [chunk |-> chunk, before |-> before, raised |-> r.raised,
                         responses |-> r.responses, after |-> r.buf]

\* the next k bytes arrive
Feed ==
    \E k \in 1..(Len(feed_input) - feed_pos) :
        /\ FeedCall(Some(SubSeq(feed_input, feed_pos + 1, feed_pos + k)))
        /\ feed_pos' = feed_pos + k
        /\ UNCHANGED <<feed_input, feed_stream, probe, varsCtl>>

\* a read that finds nothing: read() gives None, or b'' at end of file
FeedNothing ==
    \E chunk \in {None, Some(<<>>)} :
        /\ feed_input # <<>>
        /\ FeedCall(chunk)
        /\ UNCHANGED <<feed_input, feed_stream, feed_pos, probe, varsCtl>>

NextFeed == Feed \/ FeedNothing

\* a fresh controller whose gdb is silent, and bytes to feed
InitFeedRun == InitCtl /\ InitSilent /\ InitBuffers /\ InitFeed /\ InitProbeIdle

SpecFeed == InitFeedRun /\ [][NextFeed]_vars

\* feed_input as one chunk, from empty buffers
Whole == _get_responses_list(Some(feed_input), feed_stream, None)

-----------------------------------------------------------------------------
(* SpecBuffer: _buffer_incomplete_responses applied to any chunk and carry *)

MaxProbeLen == 3
ProbeBytes == {NL, "a", "b"}

RECURSIVE BytesUpTo(_)
BytesUpTo(n) ==
    IF n = 0 THEN {<<>>}
    ELSE BytesUpTo(n - 1) \cup {<<c>> \o b : c \in ProbeBytes, b \in BytesUpTo(n - 1)}

ProbeValues == {None} \cup {Some(b) : b \in BytesUpTo(MaxProbeLen)}

Probe ==
    \E raw_output \in ProbeValues, buf \in ProbeValues :
        /\ probe = NoProbe
        /\ probe' = [raw_output |-> raw_output, buf |-> buf,
                     out |-> _buffer_incomplete_responses(raw_output, buf)]
        /\ UNCHANGED <<varsCtl, incomplete_output, varsFeed>>

InitProbeRun == InitCtl /\ InitSilent /\ InitBuffers /\ InitFeedIdle /\ InitProbeIdle

SpecBuffer == InitProbeRun /\ [][Probe]_vars

-----------------------------------------------------------------------------
(* Spec: a thread calling write and get_gdb_response, threads calling      *)
(* exit, the gdb child writing to its pipes, and the clock.                *)

MaxCalls == 1
MaxEmits == 2

DEFAULT_GDB_TIMEOUT_SEC == 1
MUTEX_AQUIRE_WAIT_TIME_SEC == 1

\* self.read_list and self.write_list: descriptors are named by their pipe
read_list == <<"stdout", "stderr">>
write_list == <<"stdin">>

\* what gdb writes during a run, to stdout and to stderr
Outputs ==
    { [stdout |-> <<"a", NL, "^", "d", NL>>, stderr |-> <<>>],
      [stdout |-> <<"a", NL, xFF, NL>>, stderr |-> <<>>],
      [stdout |-> <<"(", "g", "d", "b", ")", " ", NL>>, stderr |-> <<>>],
      [stdout |-> <<"^", "d", NL>>, stderr |-> <<"e", NL>>] }

InitChild == \E o \in Outputs : to_emit = [s \in Streams |-> o[s]]

Init == InitCtl /\ InitChild /\ InitBuffers /\ InitFeedIdle /\ InitProbeIdle

Timeouts == {-1, 0, DEFAULT_GDB_TIMEOUT_SEC}

\* blocking_call and wait_for_result; the second is read only with the first
Modes == { [blocking_call |-> FALSE, wait_for_result |-> FALSE],
           [blocking_call |-> TRUE, wait_for_result |-> FALSE],
           [blocking_call |-> TRUE, wait_for_result |-> TRUE] }

\* mi_cmd_to_write: a str, a list of str, or a value of another type
Commands ==
    { [type |-> "str", lines |-> << <<"-", "a">> >>],
      [type |-> "str", lines |-> << <<"-", "a", NL>> >>],
      [type |-> "list", lines |-> << <<"-", "a">> >>],
      [type |-> "int", lines |-> <<>>] }

RECURSIVE join(_, _)
join(sep, list) ==
    IF list = <<>> THEN <<>>
    ELSE IF Len(list) = 1 THEN list[1]
    ELSE list[1] \o sep \o join(sep, Tail(list))

\* lines 130-143: the text written for a str or a list
mi_cmd_to_write_nl(cmd) ==
    LET text == join(<<NL>>, cmd.lines)
    IN  IF ~endswith(text, NL) THEN text \o <<NL>> ELSE text

NotAttached == "NoGdbProcessError: gdb process is not attached"
AlreadyFinished == "NoGdbProcessError: gdb process has already finished"
NoGdbProcessError == {NotAttached, AlreadyFinished}

\* the same without the test of the handle
VerifyIgnoresHandle ==
    IF gdb_process # "None" /\ ~child_alive THEN AlreadyFinished ELSE ""

\* the same without the test of the child's exit status
VerifyIgnoresPoll ==
    IF gdb_process = "None" THEN NotAttached ELSE ""

\* the error verify_valid_gdb_subprocess raises, "" for none
verify_valid_gdb_subprocess ==
    IF gdb_process = "None" THEN NotAttached
    ELSE IF ~child_alive THEN AlreadyFinished
    ELSE ""

Clamp(timeout_sec) == IF timeout_sec < 0 THEN 0 ELSE timeout_sec

\* the call of thread t ends: it raises `how`, or returns `list` ("returned");
\* its arguments and locals are gone
Ends(t, how, list) ==
    /\ pc' = [pc EXCEPT ![t] = "idle"]
    /\ frame' = [frame EXCEPT ![t] = NoFrame]
    /\ outcome' = [outcome EXCEPT ![t] = how]
    /\ retval' = [retval EXCEPT ![t] = list]

\* the call of thread t goes on at `where` with locals f; what the call
\* before it gave its caller is gone
Goes(t, where, f) ==
    /\ pc' = [pc EXCEPT ![t] = where]
    /\ frame' = [frame EXCEPT ![t] = f]
    /\ outcome' = [outcome EXCEPT ![t] = "none"]
    /\ retval' = [retval EXCEPT ![t] = <<>>]

Begins(t) ==
    /\ pc[t] = "idle"
    /\ calls[t] < MaxCalls
    /\ calls' = [calls EXCEPT ![t] = @ + 1]

\* lines 198-203 of get_gdb_response, up to the acquire
EnterRead(t, f) ==
    IF verify_valid_gdb_subprocess # ""
       THEN Ends(t, verify_valid_gdb_subprocess, <<>>)
    ELSE Goes(t, "acquire", [f EXCEPT !.timeout_sec = Clamp(f.timeout_sec), !.t0 = now])

\* a thread calls get_gdb_response(timeout_sec, raise_error_on_timeout, ...)
StartRead(t) ==
    /\ Begins(t)
    /\ \E timeout_sec \in Timeouts, raise_error_on_timeout \in BOOLEAN, mode \in Modes :
          EnterRead(t, [NoFrame EXCEPT !.op = "read", !.timeout_sec = timeout_sec,
                            !.raise_error_on_timeout = raise_error_on_timeout,
                            !.read_response = TRUE,
                            !.blocking_call = mode.blocking_call,
                            !.wait_for_result = mode.wait_for_result])
    /\ UNCHANGED <<gdb_process, mutex, stdin, now, varsChild, incomplete_output,
                   varsFeed, probe>>

\* a thread calls write(mi_cmd_to_write, ...): lines 122-143
StartWrite(t) ==
    /\ Begins(t)
    /\ \E cmd \in Commands, timeout_sec \in Timeouts, raise_error_on_timeout \in BOOLEAN,
          read_response \in BOOLEAN, mode \in Modes :
          IF verify_valid_gdb_subprocess # ""
             THEN Ends(t, verify_valid_gdb_subprocess, <<>>)
          ELSE IF cmd.type \notin {"str", "list"}
             THEN Ends(t, "TypeError", <<>>)
          ELSE Goes(t, "write_select",
                    [NoFrame EXCEPT !.op = "write", !.timeout_sec = Clamp(timeout_sec),
                         !.raise_error_on_timeout = raise_error_on_timeout,
                         !.read_response = read_response,
                         !.blocking_call = mode.blocking_call,
                         !.wait_for_result = mode.wait_for_result,
                         !.mi_cmd_to_write_nl = mi_cmd_to_write_nl(cmd),
                         !.t0 = now])
    /\ UNCHANGED <<gdb_process, mutex, stdin, now, varsChild, incomplete_output,
                   varsFeed, probe>>

\* lines 150-153: select on the child's stdin.  The pipe is writable, or it
\* is full for as long as the select waits.
WriteSelect(t) ==
    /\ pc[t] = "write_select"
    /\ \/ Goes(t, "write_stdin", [frame[t] EXCEPT !.outputready = write_list])
       \/ /\ child_alive
          /\ ~frame[t].blocking_call
          /\ now - frame[t].t0 >= frame[t].timeout_sec
          /\ Goes(t, "write_stdin", [frame[t] EXCEPT !.outputready = <<>>])
    /\ UNCHANGED <<gdb_process, mutex, stdin, now, varsChild, calls, incomplete_output,
                   varsFeed, probe>>

\* the same going on to read whatever read_response says
WriteStdinAlwaysReads(t) ==
    /\ pc[t] = "write_stdin"
    /\ stdin' = IF frame[t].outputready # <<>>
                THEN Append(stdin, frame[t].mi_cmd_to_write_nl)
                ELSE stdin
    /\ Goes(t, "read_entry", frame[t])
    /\ UNCHANGED <<gdb_process, mutex, now, varsChild, calls, incomplete_output,
                   varsFeed, probe>>

\* lines 154-171: the write and the flush, then the read or the return
WriteStdin(t) ==
    /\ pc[t] = "write_stdin"
    /\ IF frame[t].outputready # <<>> /\ gdb_process = "None"
          THEN Ends(t, "AttributeError", <<>>) /\ UNCHANGED stdin
       ELSE IF frame[t].outputready # <<>> /\ ~child_alive
          THEN Ends(t, "BrokenPipeError", <<>>) /\ UNCHANGED stdin
       ELSE /\ stdin' = IF frame[t].outputready # <<>>
                        THEN Append(stdin, frame[t].mi_cmd_to_write_nl)
                        ELSE stdin
            /\ IF frame[t].read_response
                  THEN Goes(t, "read_entry", frame[t])
               ELSE Ends(t, "returned", <<>>)
    /\ UNCHANGED <<gdb_process, mutex, now, varsChild, calls, incomplete_output,
                   varsFeed, probe>>

\* line 165: write calls get_gdb_response, passing on timeout_sec,
\* raise_error_on_timeout, blocking_call and wait_for_result
ReadEntry(t) ==
    /\ pc[t] = "read_entry"
    /\ EnterRead(t, [frame[t] EXCEPT !.mi_cmd_to_write_nl = <<>>, !.outputready = <<>>])
    /\ UNCHANGED <<gdb_process, mutex, stdin, now, varsChild, calls, incomplete_output,
                   varsFeed, probe>>

\* an acquire that gives up after its wait and goes on without the lock
AcquireGivesUp(t) ==
    /\ pc[t] = "acquire"
    /\ mutex = NoThread \/ now - frame[t].t0 >= MUTEX_AQUIRE_WAIT_TIME_SEC
    /\ mutex' = IF mutex = NoThread THEN t ELSE mutex
    /\ Goes(t, "select", [frame[t] EXCEPT !.t0 = now])
    /\ UNCHANGED <<gdb_process, stdin, now, varsChild, calls, incomplete_output,
                   varsFeed, probe>>

\* line 205: self.mutex.acquire(MUTEX_AQUIRE_WAIT_TIME_SEC).  The argument
\* is Lock.acquire's first parameter, block; no timeout is given.
Acquire(t) ==
    /\ pc[t] = "acquire"
    /\ mutex = NoThread
    /\ mutex' = t
    /\ Goes(t, "select", [frame[t] EXCEPT !.t0 = now])
    /\ UNCHANGED <<gdb_process, stdin, now, varsChild, calls, incomplete_output,
                   varsFeed, probe>>

\* a pipe select reports readable: it holds bytes, or its writer is gone
Readable(s) == pending[s] # <<>> \/ ~child_alive
ReadyList == SelectSeq(read_list, Readable)

\* a select that reports every pipe, ready or not
ReadSelectReportsAll(t) ==
    /\ pc[t] = "select"
    /\ Goes(t, "loop",
            [frame[t] EXCEPT !.events = read_list, !.idx = 1,
                 !.timeout_time_sec = IF frame[t].timeout_sec # 0
                                      THEN now + frame[t].timeout_sec ELSE @])
    /\ UNCHANGED <<gdb_process, mutex, stdin, now, varsChild, calls, incomplete_output,
                   varsFeed, probe>>

\* lines 258-266: the select on both output pipes, then the deadline
ReadSelect(t) ==
    /\ pc[t] = "select"
    /\ ReadyList = <<>> => ~frame[t].blocking_call /\ now - frame[t].t0 >= frame[t].timeout_sec
    /\ Goes(t, "loop",
            [frame[t] EXCEPT !.events = ReadyList, !.idx = 1,
                 !.timeout_time_sec = IF frame[t].timeout_sec # 0
                                      THEN now + frame[t].timeout_sec ELSE @])
    /\ UNCHANGED <<gdb_process, mutex, stdin, now, varsChild, calls, incomplete_output,
                   varsFeed, probe>>

\* stdout.read() / stderr.read() on the non-blocking pipe: all the bytes
\* there, None when there are none, b'' at end of file
ReadPipe(s) ==
    IF pending[s] # <<>> THEN Some(pending[s])
    ELSE IF child_alive THEN None ELSE Some(<<>>)

\* lines 269-285: one turn of "for fileno in events"
ReadFd(t) ==
    /\ pc[t] = "loop"
    /\ frame[t].idx <= Len(frame[t].events)
    /\ LET fileno == frame[t].events[frame[t].idx]
       IN  IF fileno \notin Streams
              THEN /\ mutex' = NoThread
                   /\ Ends(t, "ValueError", <<>>)
                   /\ UNCHANGED <<pending, incomplete_output>>
           ELSE IF gdb_process = "None"
              THEN /\ Ends(t, "AttributeError", <<>>)
                   /\ UNCHANGED <<mutex, pending, incomplete_output>>
           ELSE LET r == _get_responses_list(ReadPipe(fileno), fileno,
                                             incomplete_output[fileno])
                IN  /\ pending' = [pending EXCEPT ![fileno] = <<>>]
                    /\ incomplete_output' = [incomplete_output EXCEPT ![fileno] = r.buf]
                    /\ UNCHANGED mutex
                    /\ IF r.raised # ""
                          THEN Ends(t, r.raised, <<>>)
                       ELSE Goes(t, "loop",
                                 [frame[t] EXCEPT !.responses = @ \o r.responses,
                                                  !.idx = @ + 1])
    /\ UNCHANGED <<gdb_process, stdin, now, child_alive, to_emit, emits, calls, varsFeed,
                   probe>>

HasResult(list) == \E i \in 1..Len(list) : list[i].type = "result"

\* a blocking call always counts as answered
ResultReceivedAlways(wait_for_result, list) == TRUE

\* a blocking call counts as answered once it has a Record
ResultReceivedNeedsRecord(wait_for_result, list) ==
    IF wait_for_result THEN HasResult(list) ELSE list # <<>>

\* lines 291-298: result_received of a blocking call
result_received(wait_for_result, list) ==
    IF wait_for_result THEN HasResult(list) ELSE TRUE

\* lines 290-307: the tests that end the while loop
LoopEnds(t) ==
    IF frame[t].blocking_call
       THEN result_received(frame[t].wait_for_result, frame[t].responses)
    ELSE IF frame[t].timeout_sec = 0 THEN TRUE
    ELSE now > frame[t].timeout_time_sec

LoopCheck(t) ==
    /\ pc[t] = "loop"
    /\ frame[t].idx > Len(frame[t].events)
    /\ IF LoopEnds(t) THEN Goes(t, "release", frame[t])
       ELSE Goes(t, "loop", [frame[t] EXCEPT !.idx = 1])
    /\ UNCHANGED <<gdb_process, mutex, stdin, now, varsChild, calls, incomplete_output,
                   varsFeed, probe>>

\* the same returning the list whether or not it is empty
ReleaseAlwaysReturns(t) ==
    /\ pc[t] = "release"
    /\ mutex' = NoThread
    /\ Ends(t, "returned", frame[t].responses)
    /\ UNCHANGED <<gdb_process, stdin, now, varsChild, calls, incomplete_output,
                   varsFeed, probe>>

\* lines 212-217: release, then raise GdbTimeoutError or return retval
Release(t) ==
    /\ pc[t] = "release"
    /\ IF mutex = NoThread
          THEN Ends(t, "ValueError", <<>>) /\ UNCHANGED mutex
       ELSE /\ mutex' = NoThread
            /\ IF frame[t].responses = <<>> /\ frame[t].raise_error_on_timeout
                  THEN Ends(t, "GdbTimeoutError", <<>>)
               ELSE Ends(t, "returned", frame[t].responses)
    /\ UNCHANGED <<gdb_process, stdin, now, varsChild, calls, incomplete_output,
                   varsFeed, probe>>

\* exit that calls terminate() without the test of the handle
ExitTerminatesBlindly(t) ==
    /\ pc[t] = "idle"
    /\ child_alive' = FALSE
    /\ gdb_process' = "None"
    /\ outcome' = IF gdb_process = "None"
                  THEN [outcome EXCEPT ![t] = "AttributeError"] ELSE outcome
    /\ UNCHANGED <<mutex, stdin, now, to_emit, emits, pending, pc, frame, retval, calls,
                   incomplete_output, varsFeed, probe>>

\* lines 341-347: exit(); it returns None
Exit(t) ==
    /\ pc[t] = "idle"
    /\ child_alive' = IF gdb_process # "None" THEN FALSE ELSE child_alive
    /\ gdb_process' = "None"
    /\ UNCHANGED <<mutex, stdin, now, to_emit, emits, pending, varsThread,
                   incomplete_output, varsFeed, probe>>

\* gdb writes the next bytes of its output to a pipe, all of it with its
\* last write
Emit ==
    \E s \in Streams : \E k \in 1..Len(to_emit[s]) :
        /\ child_alive
        /\ emits[s] < MaxEmits
        /\ emits[s] = MaxEmits - 1 => k = Len(to_emit[s])
        /\ emits' = [emits EXCEPT ![s] = @ + 1]
        /\ pending' = [pending EXCEPT ![s] = @ \o SliceTo(to_emit[s], k)]
        /\ to_emit' = [to_emit EXCEPT ![s] = SliceFrom(@, k)]
        /\ UNCHANGED <<gdb_process, mutex, stdin, now, child_alive, varsThread,
                       incomplete_output, varsFeed, probe>>

\* gdb terminates by itself
ChildExits ==
    /\ child_alive
    /\ child_alive' = FALSE
    /\ UNCHANGED <<gdb_process, mutex, stdin, now, to_emit, emits, pending, varsThread,
                   incomplete_output, varsFeed, probe>>

\* thread t waits for the clock: in a select whose timeout has not run
\* out, in the loop before its deadline has passed, or for the lock
Timed(t) ==
    \/ /\ pc[t] \in {"write_select", "select"}
       /\ ~frame[t].blocking_call
       /\ now - frame[t].t0 < frame[t].timeout_sec
    \/ /\ pc[t] = "loop"
       /\ ~frame[t].blocking_call /\ frame[t].timeout_sec # 0
       /\ now <= frame[t].timeout_time_sec
    \/ /\ pc[t] = "acquire"
       /\ mutex # NoThread
       /\ now - frame[t].t0 <= MUTEX_AQUIRE_WAIT_TIME_SEC

\* the clock advances; once no call waits for it, it is read no more
Tick ==
    /\ \E t \in Threads : Timed(t)
    /\ now' = now + 1
    /\ UNCHANGED <<gdb_process, mutex, stdin, varsChild, varsThread, incomplete_output,
                   varsFeed, probe>>

Next ==
    \/ \E t \in {"t1"} :
          \/ StartRead(t) \/ StartWrite(t) \/ WriteSelect(t) \/ WriteStdin(t)
          \/ ReadEntry(t) \/ Acquire(t) \/ ReadSelect(t) \/ ReadFd(t)
          \/ LoopCheck(t) \/ Release(t)
    \/ \E t \in Threads : Exit(t)
    \/ Emit \/ ChildExits \/ Tick

Spec == Init /\ [][Next]_vars

\* two threads that share the controller: one writes commands and reads,
\* the other reads
NextShared ==
    \/ \E t \in {"t1"} :
          \/ StartWrite(t) \/ WriteSelect(t) \/ WriteStdin(t) \/ ReadEntry(t)
    \/ \E t \in Threads :
          \/ StartRead(t) \/ Acquire(t) \/ ReadSelect(t) \/ ReadFd(t)
          \/ LoopCheck(t) \/ Release(t)
    \/ Emit \/ Tick

\* gdb answers on stdout, with a result or with bytes that are not UTF-8
InitShared ==
    /\ InitCtl /\ InitBuffers /\ InitFeedIdle /\ InitProbeIdle
    /\ \E x \in {"^", xFF} : to_emit = [stdout |-> <<"a", NL, x, NL>>, stderr |-> <<>>]

SpecShared == InitShared /\ [][NextShared]_vars

-----------------------------------------------------------------------------
(* Properties of _buffer_incomplete_responses, checked under SpecBuffer *)

\* C7: for every chunk and prior carry, the bytes handed on followed by the
\* new carry are the old carry followed by the chunk; after a non-empty
\* chunk the bytes handed on are the prefix up to and including the last
\* line terminator (they are empty or end with one, and the new carry holds
\* none); an empty or absent chunk is handed back with the carry unchanged.
BufferConservesBytes ==
    probe # NoProbe =>
        LET ready == BytesOf(probe.out.raw_output)
            new_carry == BytesOf(probe.out.buf)
        IN  /\ ready \o new_carry = BytesOf(probe.buf) \o BytesOf(probe.raw_output)
            /\ IF Truthy(probe.raw_output)
                  THEN /\ ready = <<>> \/ endswith(ready, NL)
                       /\ ~Contains(new_carry, NL)
               ELSE /\ probe.out.buf = probe.buf
                    /\ probe.out.raw_output = probe.raw_output

\* C7: a carry and a chunk whose join is split inside: lines are handed on
\* and the bytes after the last terminator are kept
ProbeSplitsLine ==
    /\ probe # NoProbe
    /\ Truthy(probe.buf) /\ Truthy(probe.raw_output)
    /\ Truthy(probe.out.raw_output) /\ Truthy(probe.out.buf)

-----------------------------------------------------------------------------
(* Properties of _get_responses_list, checked under SpecFeed *)

FedSoFar == SliceTo(feed_input, feed_pos)
\* the bytes after the last line terminator of b
AfterLastNL(b) == IF Contains(b, NL) THEN SliceFrom(b, rindex(b, NL) + 1) ELSE b
\* the carry before the last call followed by its chunk, and the line that
\* the chunk's first terminator completes
LastJoined == BytesOf(feed_last.before) \o BytesOf(feed_last.chunk)
LastLine == SliceTo(LastJoined, index(LastJoined, NL))
LastChunkHasNL == Contains(BytesOf(feed_last.chunk), NL)
LastChunkHasOneNL ==
    Cardinality({i \in 1..Len(BytesOf(feed_last.chunk)) : BytesOf(feed_last.chunk)[i] = NL}) = 1
RecordOf(line, stream) == WithStream(parse_response(line).record, stream)
IsPromptRecord(r) == r.type = "output" /\ response_is_finished(BytesOf(r.payload))

\* C5: once all of feed_input has been fed in chunks, the Records returned
\* and the carry are those of feeding feed_input as one chunk.
ChunkingMakesNoDifference ==
    feed_pos = Len(feed_input) =>
        /\ feed_records = Whole.responses
        /\ incomplete_output[feed_stream] = Whole.buf

\* C6: the carry of the stream is exactly the bytes fed since the last line
\* terminator; a call whose chunk holds no terminator returns no Record and
\* raises nothing; a call whose chunk holds a terminator, unless it raises,
\* returns first the Record of the completed line decoded as a whole, and
\* nothing for it when the line is blank or the prompt (with one terminator
\* in the chunk, that is all it returns).
LineDecodedOnceComplete ==
    /\ BytesOf(incomplete_output[feed_stream]) = AfterLastNL(FedSoFar)
    /\ ~LastChunkHasNL => feed_last.responses = <<>> /\ feed_last.raised = ""
    /\ LastChunkHasNL /\ feed_last.raised = "" =>
          IF LastLine = <<>> \/ response_is_finished(LastLine)
             THEN LastChunkHasOneNL => feed_last.responses = <<>>
          ELSE /\ feed_last.responses # <<>>
               /\ feed_last.responses[1] = RecordOf(LastLine, feed_stream)
               /\ LastChunkHasOneNL => Len(feed_last.responses) = 1

\* C6: a line that arrived in two or more chunks has been completed and
\* its one Record returned
LineCompletedAcrossChunks ==
    /\ Truthy(feed_last.before)
    /\ LastChunkHasNL
    /\ Len(feed_last.responses) = 1
    /\ feed_last.responses[1] = RecordOf(LastLine, feed_stream)

\* C6 as first stated, for the calls that raise nothing and the lines
\* other than the prompt: the chunk that carries the terminator yields the
\* Record of the completed line.
TerminatorYieldsOneRecord ==
    LastChunkHasNL /\ feed_last.raised = "" /\ ~response_is_finished(LastLine) =>
        /\ feed_last.responses # <<>>
        /\ feed_last.responses[1] = RecordOf(LastLine, feed_stream)

\* C8: no Record returned by _get_responses_list is the Record of a prompt
\* line, however the bytes of the prompt were split over the reads.
PromptNeverReturned ==
    \A i \in 1..Len(feed_records) : ~IsPromptRecord(feed_records[i])

\* C8: the prompt arrived in two or more chunks, was put together and
\* dropped
PromptReassembled ==
    /\ Truthy(feed_last.before)
    /\ LastChunkHasNL
    /\ response_is_finished(LastLine)
    /\ feed_last.raised = ""
    /\ feed_last.responses = <<>>

-----------------------------------------------------------------------------
(* Properties of the controller, checked under Spec *)

InReadCycle(t) == pc[t] \in {"select", "loop", "release"}
BlockingNoWait(t) == frame[t].blocking_call /\ ~frame[t].wait_for_result
BlockingWait(t) == frame[t].blocking_call /\ frame[t].wait_for_result

\* the ways a call that took the lock ends: a return, GdbTimeoutError, an
\* error of decoding, the ValueError of an unrecognised descriptor
ReadEndings ==
    {"returned", "GdbTimeoutError", "UnicodeDecodeError", "ProtocolDecodeError", "ValueError"}

\* C1: after a call of get_gdb_response has ended by a return, by
\* GdbTimeoutError, by an error of decoding or by the ValueError of an
\* unrecognised descriptor, that call no longer holds the lock.
LockFreeAfterRead ==
    \A t \in Threads : (pc[t] = "idle" /\ outcome[t] \in ReadEndings) => mutex # t

\* C4: once the handle is None it stays None, and every call of write or
\* get_gdb_response begun from then on ends at once with NoGdbProcessError.
ExitedIsFinal ==
    [][gdb_process = "None" =>
          /\ gdb_process' = "None"
          /\ \A t \in Threads :
                calls'[t] # calls[t] =>
                    pc'[t] = "idle" /\ outcome'[t] \in NoGdbProcessError]_vars

\* C4: exit() has been called and a call made after it has been refused
CallAfterExit ==
    /\ gdb_process = "None"
    /\ ~child_alive
    /\ \E t \in Threads : calls[t] > 0 /\ pc[t] = "idle" /\ outcome[t] \in NoGdbProcessError

\* C9: a blocking call without wait_for_result makes one pass over the
\* pipes its select reported and then ends, with or without a Record: it
\* never starts a second pass, and with no Record it raises GdbTimeoutError
\* when raise_error_on_timeout is set and returns the empty list otherwise.
BlockingReadIsOnePass ==
    [][\A t \in Threads :
          /\ (pc[t] = "loop" /\ BlockingNoWait(t) /\ pc'[t] = "loop")
                => frame'[t].idx >= frame[t].idx
          /\ (pc[t] = "release" /\ BlockingNoWait(t) /\ pc'[t] = "idle")
                => IF frame[t].responses = <<>> /\ frame[t].raise_error_on_timeout
                      THEN outcome'[t] = "GdbTimeoutError"
                   ELSE outcome'[t] = "returned" /\ retval'[t] = frame[t].responses]_vars

\* C9: a blocking call without wait_for_result has read a pipe, got no
\* Record from it and is about to return the empty list
BlockingReadEndsEmpty ==
    \E t \in Threads :
        /\ pc[t] = "release" /\ BlockingNoWait(t)
        /\ frame[t].events # <<>>
        /\ frame[t].responses = <<>>
        /\ ~frame[t].raise_error_on_timeout

\* C9 as first stated: a blocking call without wait_for_result that is
\* about to return has at least one Record.
BlockingReadReturnsRecords ==
    \A t \in Threads :
        (pc[t] = "release" /\ BlockingNoWait(t) /\ ~frame[t].raise_error_on_timeout)
            => frame[t].responses # <<>>

\* C10: a blocking call with wait_for_result ends its loop only with a
\* result Record among those it has accumulated, and returns all of them
\* in the order they were accumulated.
WaitForResultReturnsResult ==
    [][\A t \in Threads :
          /\ (pc[t] = "loop" /\ BlockingWait(t) /\ pc'[t] = "release")
                => HasResult(frame[t].responses)
          /\ (pc[t] = "release" /\ BlockingWait(t) /\ pc'[t] = "idle")
                => /\ outcome'[t] = "returned"
                   /\ retval'[t] = frame[t].responses
                   /\ HasResult(retval'[t])]_vars

\* C10: a call that waited for a result has returned it after a Record
\* of another kind
ResultAfterOtherRecords ==
    \E t \in Threads :
        /\ pc[t] = "idle" /\ outcome[t] = "returned"
        /\ Len(retval[t]) >= 2
        /\ retval[t][1].type # "result"
        /\ retval[t][Len(retval[t])].type = "result"

-----------------------------------------------------------------------------
(* Properties of the lock, checked under SpecShared *)

\* C2: at no time are two threads between the acquire and the release of
\* get_gdb_response.
OneReadCycle ==
    \A t, u \in Threads : InReadCycle(t) /\ InReadCycle(u) => t = u

\* C2: one thread reads while the other waits for the lock
ReaderWaitsForLock ==
    \E t, u \in Threads : pc[t] = "loop" /\ mutex = t /\ pc[u] = "acquire"

\* C3: a call that waits for the lock held by another caller has waited no
\* longer than MUTEX_AQUIRE_WAIT_TIME_SEC.
AcquireIsBounded ==
    \A t \in Threads :
        (pc[t] = "acquire" /\ mutex # NoThread)
            => now - frame[t].t0 <= MUTEX_AQUIRE_WAIT_TIME_SEC

-----------------------------------------------------------------------------
(* Progress of a read, checked under Spec *)

\* bytes that hold a complete result line
HasResultLine(bytes) ==
    \E i \in 1..Len(bytes) :
        /\ bytes[i] = "^"
        /\ i = 1 \/ bytes[i - 1] = NL
        /\ \E j \in (i + 1)..Len(bytes) : bytes[j] = NL

\* the pipes the loop of thread t reads, pass after pass
PipesRead(t) == {frame[t].events[i] : i \in 1..Len(frame[t].events)}

\* C11: a blocking call with wait_for_result that is in its read loop while
\* a complete result line lies in the stdout pipe goes on to read stdout,
\* whichever pipes its select reported: without that it cannot end.
ResultPipeIsRead ==
    \A t \in Threads :
        (pc[t] = "loop" /\ BlockingWait(t) /\ HasResultLine(pending["stdout"]))
            => "stdout" \in PipesRead(t)

\* C12: the step that ends a call after its loop raises GdbTimeoutError
\* exactly when the call accumulated no Record and raise_error_on_timeout
\* is set, and otherwise returns the accumulated list; GdbTimeoutError is
\* raised by no other step.
TimeoutErrorIffEmpty ==
    [][\A t \in Threads :
          /\ (pc[t] = "release" /\ pc'[t] = "idle")
                => IF frame[t].responses = <<>> /\ frame[t].raise_error_on_timeout
                      THEN outcome'[t] = "GdbTimeoutError" /\ retval'[t] = <<>>
                   ELSE outcome'[t] = "returned" /\ retval'[t] = frame[t].responses
          /\ (outcome'[t] = "GdbTimeoutError" /\ outcome[t] # "GdbTimeoutError")
                => /\ pc[t] = "release"
                   /\ frame[t].responses = <<>>
                   /\ frame[t].raise_error_on_timeout]_vars

\* C12: a call has raised GdbTimeoutError after reading bytes that made no
\* complete line
TimedOutWithCarry ==
    \E t \in Threads :
        /\ pc[t] = "idle" /\ outcome[t] = "GdbTimeoutError"
        /\ Truthy(incomplete_output["stdout"])

-----------------------------------------------------------------------------
(* Errors of decoding, checked under SpecFeed *)

\* the line cannot be decoded: it is not UTF-8, or it is no MI record
LineFails(line) ==
    \/ Contains(line, xFF)
    \/ ~response_is_finished(line) /\ parse_response(line).err

\* C13: when a call raises on a batch whose first line decodes to a Record,
\* that line is not lost: its bytes are still in the carry-over, from where
\* a later call can deliver the Record.
BatchLinesSurviveError ==
    (/\ feed_last.raised # ""
     /\ LastLine # <<>> /\ ~response_is_finished(LastLine) /\ ~LineFails(LastLine))
        => SliceTo(BytesOf(feed_last.after), Len(LastLine)) = LastLine

-----------------------------------------------------------------------------
(* exit() during a call, checked under Spec *)

\* C14: exit() called while a thread is inside get_gdb_response does not
\* make that call fail: no call ends with the AttributeError of a handle
\* that is None while it holds the lock.
ExitLeavesReaderAlone ==
    \A t \in Threads : (pc[t] = "idle" /\ outcome[t] = "AttributeError") => mutex # t

-----------------------------------------------------------------------------
(* SpecWriters: two threads that write commands and read the answers *)

NextWriters ==
    \/ \E t \in Threads :
          \/ StartWrite(t) \/ WriteSelect(t) \/ WriteStdin(t) \/ ReadEntry(t)
          \/ Acquire(t) \/ ReadSelect(t) \/ ReadFd(t) \/ LoopCheck(t) \/ Release(t)
    \/ Emit \/ Tick

\* gdb answers each run with one result line on stdout
InitWriters ==
    /\ InitCtl /\ InitBuffers /\ InitFeedIdle /\ InitProbeIdle
    /\ to_emit = [stdout |-> <<"^", "d", NL>>, stderr |-> <<>>]

SpecWriters == InitWriters /\ [][NextWriters]_vars

\* thread t has written its command and has not yet begun to read
WroteNotRead(t) == pc[t] = "read_entry" /\ frame[t].outputready # <<>>

\* C15: write holds the lock from before its command is written until it
\* returns, so no thread writes its command between another thread's write
\* of a command and that thread's read.
WritesDoNotInterleave ==
    \A t, u \in Threads : WroteNotRead(t) /\ WroteNotRead(u) => t = u

-----------------------------------------------------------------------------
(* write, checked under Spec *)

InWrite(t) == pc[t] \in {"write_select", "write_stdin"}

-----------------------------------------------------------------------------
(* A read that does not wait, checked under Spec *)

ZeroTimeout(t) == ~frame[t].blocking_call /\ frame[t].timeout_sec = 0
NothingRead(t) ==
    /\ incomplete_output' = incomplete_output
    /\ pending' = pending
    /\ now' = frame[t].t0

\* C17: a non-blocking read with timeout 0 that finds no pipe ready makes
\* one select and one pass that reads nothing, then releases the lock and
\* returns the empty list (or raises GdbTimeoutError when
\* raise_error_on_timeout is set), without the clock having advanced and
\* with the carry-over buffers as they were.
ImmediateReadReturnsEmpty ==
    [][\A t \in Threads :
          /\ (pc[t] = "select" /\ ZeroTimeout(t) /\ ReadyList = <<>> /\ pc'[t] # "select")
                => /\ pc'[t] = "loop" /\ frame'[t].events = <<>>
                   /\ NothingRead(t)
          /\ (pc[t] = "loop" /\ ZeroTimeout(t) /\ frame[t].events = <<>> /\ pc'[t] # "loop")
                => /\ pc'[t] = "release" /\ frame'[t].responses = <<>>
                   /\ NothingRead(t)
          /\ (pc[t] = "release" /\ ZeroTimeout(t) /\ frame[t].events = <<>>
                /\ pc'[t] # "release")
                => /\ pc'[t] = "idle" /\ mutex' = NoThread /\ retval'[t] = <<>>
                   /\ outcome'[t] = IF frame[t].raise_error_on_timeout
                                    THEN "GdbTimeoutError" ELSE "returned"
                   /\ NothingRead(t)]_vars

\* C17: such a read, with raise_error_on_timeout not set, is about to
\* return while gdb runs and is silent
ImmediateReadAboutToReturn ==
    \E t \in Threads :
        /\ pc[t] = "release" /\ ZeroTimeout(t) /\ ~frame[t].raise_error_on_timeout
        /\ frame[t].events = <<>> /\ frame[t].responses = <<>>
        /\ gdb_process # "None" /\ child_alive
        /\ pending = [s \in Streams |-> <<>>]

-----------------------------------------------------------------------------
(* exit() after exit(), checked under Spec *)

\* C18: exit() on a controller whose handle is already None can be called
\* and changes nothing: no terminate, no error, the same state.
ExitIsIdempotent ==
    \A t \in Threads :
        (gdb_process = "None" /\ pc[t] = "idle")
            => ENABLED Exit(t) /\ ~ENABLED <<Exit(t)>>_vars

\* C18: exit() has been called, a call made after it has been refused and
\* exit() can be called again
ExitAfterExit ==
    /\ gdb_process = "None"
    /\ \E t \in Threads : outcome[t] = NotAttached
    /\ \A t \in Threads : ENABLED Exit(t)

-----------------------------------------------------------------------------
(* The transmission of the command, checked under Spec *)

\* C19: the step by which write goes on to its read, or returns, has
\* written the command text, with its line break, to the stdin of gdb.
CommandIsTransmitted ==
    [][\A t \in Threads :
          (/\ pc[t] = "write_stdin"
           /\ \/ pc'[t] = "read_entry"
              \/ pc'[t] = "idle" /\ outcome'[t] = "returned")
              => stdin' = Append(stdin, frame[t].mi_cmd_to_write_nl)]_vars

-----------------------------------------------------------------------------
(* The pipes a timed read looks at, checked under Spec *)

\* C20: a non-blocking read that is in its loop before its deadline reads
\* every pipe that holds bytes, also one that was not ready at the first
\* select.
LoopReadsArrivedBytes ==
    \A t \in Threads :
        (/\ pc[t] = "loop"
         /\ ~frame[t].blocking_call /\ frame[t].timeout_sec # 0
         /\ now <= frame[t].timeout_time_sec)
            => \A s \in Streams : pending[s] # <<>> => s \in PipesRead(t)

-----------------------------------------------------------------------------
(* The deadline of a timed read, checked under Spec *)

\* C21: the deadline of a non-blocking read with a timeout is the time at
\* which the read started to wait plus the timeout, so the wait in select
\* counts against the timeout.
DeadlineCountsFromStart ==
    \A t \in Threads :
        (pc[t] = "loop" /\ ~frame[t].blocking_call /\ frame[t].timeout_sec # 0)
            => frame[t].timeout_time_sec = frame[t].t0 + frame[t].timeout_sec

-----------------------------------------------------------------------------
(* Calls on a controller whose child has terminated, checked under Spec *)

\* C22: a call of write or get_gdb_response made while the handle is set
\* and the child has terminated by itself raises NoGdbProcessError at once,
\* also for a command of a wrong type: nothing is written to stdin, the
\* lock is not taken, no pipe is read and the carry-over stays as it was.
FinishedChildFailsFast ==
    [][\A t \in Threads :
          (/\ pc[t] = "idle" /\ calls'[t] # calls[t]
           /\ gdb_process # "None" /\ ~child_alive)
             => /\ pc'[t] = "idle"
                /\ outcome'[t] = AlreadyFinished /\ retval'[t] = <<>>
                /\ stdin' = stdin /\ mutex' = mutex
                /\ pending' = pending
                /\ incomplete_output' = incomplete_output]_vars

CalledAfterChildExit ==
    \E t \in Threads :
        /\ pc[t] = "idle" /\ outcome[t] = AlreadyFinished
        /\ gdb_process # "None" /\ ~child_alive
        /\ pending["stdout"] # <<>>
        /\ stdin = <<>> /\ mutex = NoThread

-----------------------------------------------------------------------------
(* The carry-over of the two streams, checked under Spec *)

\* thread t takes a turn of "for fileno in events" that reads a pipe
ReadsPipe(t) ==
    /\ pc[t] = "loop" /\ frame[t].idx <= Len(frame[t].events)
    /\ gdb_process # "None"
    /\ pc'[t] = "idle" \/ frame'[t].idx = frame[t].idx + 1

\* C23: the carry-over of each stream is always absent, empty or bytes
\* without a line terminator; a read of a non-empty chunk that, joined to
\* the stream's carry-over, ends with a line terminator leaves that
\* carry-over absent or empty, also when the read raises; and a read of one
\* stream leaves the carry-over of the other stream as it was.
CarryHoldsNoTerminator ==
    /\ [](\A s \in Streams : ~Contains(BytesOf(incomplete_output[s]), NL))
    /\ [][\A t \in Threads :
             ReadsPipe(t) =>
                LET fileno == frame[t].events[frame[t].idx]
                    chunk == ReadPipe(fileno)
                    joined == BytesOf(incomplete_output[fileno]) \o BytesOf(chunk)
                IN  /\ \A s \in Streams \ {fileno} :
                           incomplete_output'[s] = incomplete_output[s]
                    /\ (Truthy(chunk) /\ endswith(joined, NL))
                           => ~Truthy(incomplete_output'[fileno])]_vars

CarriesOnBothStreams ==
    \E t \in Threads :
        /\ pc[t] = "loop" /\ frame[t].idx = 1 /\ frame[t].events = read_list
        /\ incomplete_output = [stdout |-> Some(<<"^">>), stderr |-> Some(<<"e">>)]
        /\ pending["stdout"] = <<"d", NL>>

-----------------------------------------------------------------------------
(* Bytes read by a call that timed out, checked under SpecShared *)

\* a call that makes one pass over the pipes select reported
SinglePass(t) ==
    IF frame[t].blocking_call THEN ~frame[t].wait_for_result
    ELSE frame[t].timeout_sec = 0

\* C24: when a call has ended with GdbTimeoutError leaving a partial line in
\* the carry-over of stdout, the later call whose read of stdout brings the
\* line's terminator goes on without an error, with the Record of that line
\* once among its responses.
TimedOutLineIsReturned ==
    [][\A t, u \in Threads :
          (/\ outcome[t] = "GdbTimeoutError"
           /\ ReadsPipe(u) /\ SinglePass(u)
           /\ frame[u].events[frame[u].idx] = "stdout"
           /\ Truthy(incomplete_output["stdout"])
           /\ Contains(pending["stdout"], NL))
             => LET joined == BytesOf(incomplete_output["stdout"]) \o pending["stdout"]
                    line == SliceTo(joined, index(joined, NL))
                    list == frame'[u].responses
                IN  /\ pc'[u] = "loop"
                    /\ Cardinality({i \in 1..Len(list) :
                                      list[i] = RecordOf(line, "stdout")}) = 1]_vars

====
